---- MODULE Spec2Model ----
(***************************************************************************)
(* A model of the key/value server of src/kvraft/server.go: the Get and    *)
(* PutAppend RPC handlers, the applyCommitted loop with its per-client     *)
(* duplicate table, the wait-channel registry and the snapshot code.  The  *)
(* Raft module (rf.Start, the applyCh stream, rf.TakeSnapshot), the        *)
(* persister and the clerks are the environment.                           *)
(***************************************************************************)
EXTENDS Integers, Sequences, FiniteSets, TLC

\* ------------------------------------------------------------ bounds
\* The longest Raft log the model builds.
MaxLog == 2

\* ------------------------------------------------------------ constants
GET == "Get"
PUT == "Put"
APPEND == "Append"

OK == "OK"
ErrNoKey == "ErrNoKey"
ErrWrongLeader == "ErrWrongLeader"
\* The zero value of the reply's Err field (an Err is a string).
ErrUnset == ""

\* The capacity of make(chan Op): no buffer.
WaitChCap_Unbuffered == Len(<<>>)

\* The channel capacity of make(chan Op, 1).
WaitChCap == 1

Cids == {1, 2}
\* The sequence numbers a clerk issues, in this order.
Seqs == {1, 2}
Keys == {"x"}
Handlers == {"h1", "h2"}
HandlerRank(h) == IF h = "h1" THEN 1 ELSE 2
\* The maxraftstate the servers of Spec are started with.
MaxRaftStates == {10}
\* persister.RaftStateSize(): the saved Raft state grows with the log.
RaftStateSize(raftLog) == 3 + 4 * Len(raftLog)

Letters == <<"a", "b", "c", "d", "e", "f", "g", "h">>
\* The value a clerk writes with its request (Cid, Seq): one letter each.
ValOf(cid, seq) == Letters[(cid - 1) * Cardinality(Seqs) + seq]

\* The workload: clerk 1 appends twice; clerk 2 reads, then writes.
TypeOf(cid, seq) ==
  IF cid = 1 THEN APPEND ELSE IF seq = 1 THEN GET ELSE PUT

\* ------------------------------------------------------------ Go maps
\* A Go map is a function with a finite domain; reading an absent key gives
\* the zero value and does not insert.
EmptyMap == <<>>
MapGet(m, k, zero) == IF k \in DOMAIN m THEN m[k] ELSE zero
MapPut(m, k, v) == [x \in (DOMAIN m) \cup {k} |-> IF x = k THEN v ELSE m[x]]

\* ------------------------------------------------------------ Op
Op(type, key, value, cid, seq) ==
  [Type |-> type, Key |-> key, Value |-> value, Cid |-> cid, Seq |-> seq]

\* The zero value of an Op.
ZeroOp == Op("", "", "", 0, 0)

sameAs(a, b) == a.Cid = b.Cid /\ a.Seq = b.Seq

\* ------------------------------------------------------------ apply
\* applyOp without the assignment of line 135.
applyOp_KeepTable(st, csm, op) ==
  IF op.Seq > MapGet(csm, op.Cid, 0)
  THEN [store |-> CASE op.Type = GET -> st
                    [] op.Type = PUT -> MapPut(st, op.Key, op.Value)
                    [] op.Type = APPEND ->
                         MapPut(st, op.Key, MapGet(st, op.Key, "") \o op.Value)
                    [] OTHER -> st,
        clientSeqMap |-> csm,
        applied |-> TRUE]
  ELSE [store |-> st, clientSeqMap |-> csm, applied |-> FALSE]

\* applyOp with Append storing its value in place of the old one.
applyOp_AppendReplaces(st, csm, op) ==
  IF op.Seq > MapGet(csm, op.Cid, 0)
  THEN [store |-> CASE op.Type = GET -> st
                    [] op.Type = PUT -> MapPut(st, op.Key, op.Value)
                    [] op.Type = APPEND ->
                         MapPut(st, op.Key, op.Value)
                    [] OTHER -> st,
        clientSeqMap |-> MapPut(csm, op.Cid, op.Seq),
        applied |-> TRUE]
  ELSE [store |-> st, clientSeqMap |-> csm, applied |-> FALSE]

\* applyOp with the duplicate check of line 125 letting an equal Seq through.
applyOp_SeqNotBelow(st, csm, op) ==
  IF op.Seq >= MapGet(csm, op.Cid, 0)
  THEN [store |-> CASE op.Type = GET -> st
                    [] op.Type = PUT -> MapPut(st, op.Key, op.Value)
                    [] op.Type = APPEND ->
                         MapPut(st, op.Key, MapGet(st, op.Key, "") \o op.Value)
                    [] OTHER -> st,
        clientSeqMap |-> MapPut(csm, op.Cid, op.Seq),
        applied |-> TRUE]
  ELSE [store |-> st, clientSeqMap |-> csm, applied |-> FALSE]

\* Lines 125-139: the duplicate check and the mutation of one committed Op.
applyOp(st, csm, op) ==
  IF op.Seq > MapGet(csm, op.Cid, 0)
  THEN [store |-> CASE op.Type = GET -> st
                    [] op.Type = PUT -> MapPut(st, op.Key, op.Value)
                    [] op.Type = APPEND ->
                         MapPut(st, op.Key, MapGet(st, op.Key, "") \o op.Value)
                    [] OTHER -> st,
        clientSeqMap |-> MapPut(csm, op.Cid, op.Seq),
        applied |-> TRUE]
  ELSE [store |-> st, clientSeqMap |-> csm, applied |-> FALSE]

\* resolveOp without lines 141-143: the Get goes to the handler as it came.
resolveOp_NoRead(st, op) == op

\* Lines 141-143: a Get carries the current value of its key to the handler.
resolveOp(st, op) ==
  IF op.Type = GET THEN [op EXCEPT !.Value = MapGet(st, op.Key, "")] ELSE op

\* ------------------------------------------------------------ snapshots
KindStore == "map[string]string"
KindSeqMap == "map[int64]int"

RECURSIVE PairsOf(_)
\* The key/value pairs of a map, one after the other, as gob writes them.
PairsOf(m) ==
  IF DOMAIN m = {} THEN <<>>
  ELSE LET k == CHOOSE x \in DOMAIN m : TRUE
           rest == [x \in (DOMAIN m) \ {k} |-> m[x]]
       IN  <<[k |-> k, v |-> m[k]]>> \o PairsOf(rest)

\* encoder.Encode(m): one field of the blob, the map's type and its pairs.
Encode(kind, m) == [kind |-> kind, pairs |-> PairsOf(m)]

RECURSIVE MapOfPairs(_, _)
\* The decoder fills a fresh map pair by pair.
MapOfPairs(pairs, m) ==
  IF pairs = <<>> THEN m
  ELSE MapOfPairs(Tail(pairs), MapPut(m, Head(pairs).k, Head(pairs).v))

\* decoder.Decode(&m) of the field at position pos: an error when the blob
\* has no such field or the field is of another type.
Decode(data, pos, kind) ==
  IF pos > Len(data) \/ data[pos].kind # kind
  THEN [err |-> TRUE, val |-> EmptyMap]
  ELSE [err |-> FALSE, val |-> MapOfPairs(data[pos].pairs, EmptyMap)]

\* getSnapshot without the Encode of line 174.
getSnapshot_StoreOnly(st, csm) == <<Encode(KindStore, st)>>

\* Lines 170-177.
getSnapshot(st, csm) == <<Encode(KindStore, st), Encode(KindSeqMap, csm)>>

\* readSnapshot assigning kv.store as soon as the first field has decoded.
readSnapshot_StoreFirst(data, st, csm) ==
  IF Len(data) < 1
  THEN [store |-> st, clientSeqMap |-> csm, installed |-> FALSE]
  ELSE LET s == Decode(data, 1, KindStore)
           c == Decode(data, 2, KindSeqMap)
       IN  IF s.err
           THEN [store |-> st, clientSeqMap |-> csm, installed |-> FALSE]
           ELSE IF c.err
           THEN [store |-> s.val, clientSeqMap |-> csm, installed |-> FALSE]
           ELSE [store |-> s.val, clientSeqMap |-> c.val, installed |-> TRUE]

\* readSnapshot installing the store of the snapshot and leaving clientSeqMap.
readSnapshot_StoreOnly(data, st, csm) ==
  IF Len(data) < 1
  THEN [store |-> st, clientSeqMap |-> csm, installed |-> FALSE]
  ELSE LET s == Decode(data, 1, KindStore)
           c == Decode(data, 2, KindSeqMap)
       IN  IF s.err \/ c.err
           THEN [store |-> st, clientSeqMap |-> csm, installed |-> FALSE]
           ELSE [store |-> s.val, clientSeqMap |-> csm, installed |-> TRUE]

\* Lines 179-200: the (store, clientSeqMap) the server holds after
\* readSnapshot(data).
readSnapshot(data, st, csm) ==
  IF Len(data) < 1
  THEN [store |-> st, clientSeqMap |-> csm, installed |-> FALSE]
  ELSE LET s == Decode(data, 1, KindStore)
           c == Decode(data, 2, KindSeqMap)
       IN  IF s.err \/ c.err
           THEN [store |-> st, clientSeqMap |-> csm, installed |-> FALSE]
           ELSE [store |-> s.val, clientSeqMap |-> c.val, installed |-> TRUE]

\* The clientSeqMap a snapshot records.
SeqMapIn(data) == Decode(data, 2, KindSeqMap).val

\* snapshotDue asking for a snapshot at the threshold too.
snapshotDue_AtThreshold(maxRaftState, currStateSize) ==
  maxRaftState > -1 /\ currStateSize * 10 >= maxRaftState * 7

\* Lines 159-163: whether snapshotCheck asks for a snapshot.  The float32
\* product maxRaftState * 0.7 and the float32 sizes are exact for the sizes
\* of the model (they are for every size below 2^24), so the comparison is
\* that of the integers 10 * currStateSize and 7 * maxRaftState.
snapshotDue(maxRaftState, currStateSize) ==
  maxRaftState > -1 /\ currStateSize * 10 > maxRaftState * 7

\* ------------------------------------------------------------ state
VARIABLES
  store,         \* kv.store
  clientSeqMap,  \* kv.clientSeqMap
  waitChans,     \* kv.waitChans: log index -> the buffered contents of the channel
  mu,            \* kv.mu: the goroutine that holds it, Unlocked when none does
  dead,          \* kv.dead
  maxraftstate,  \* kv.maxraftstate
  apc,           \* where the applyCommitted goroutine is
  msg,           \* applyCommitted's msg, while it handles a command
  aop,           \* applyCommitted's op, as it goes to the handler
  hs,            \* the RPC handler invocations: pc, op, index and the reply
  isLeader,      \* Raft: whether this peer believes it is the leader
  log,           \* Raft: this peer's log
  lastApplied,   \* Raft: the entries up to lastApplied are committed and have
                 \* been put on applyCh
  issued,        \* the clerks: the requests issued so far
  compactReq,    \* the last rf.TakeSnapshot(index, snapshot) call started
  reply,         \* the reply an RPC handler is returning, NoReply when none is
  consumed,      \* history: the notifications applyCommitted has taken
  applyCount,    \* history: how often each (Cid, Seq) passed the duplicate check
  sentOps,       \* history: the Op sent into the channel of each index
  snapSeqMap,    \* history: the clientSeqMap in the last snapshot installed
  initial        \* history: store and clientSeqMap as StartKVServer left them

kvVars == <<store, clientSeqMap, waitChans, mu, dead, maxraftstate>>
applyVars == <<apc, msg, aop>>
raftVars == <<isLeader, log, lastApplied>>
clerkVars == <<issued>>
histVars == <<consumed, applyCount, sentOps, snapSeqMap, initial>>
vars == <<store, clientSeqMap, waitChans, mu, dead, maxraftstate, apc, msg, aop,
          hs,
          isLeader, log, lastApplied, issued, compactReq,
          reply, consumed, applyCount, sentOps, snapSeqMap, initial>>

Ids == Cids \X Seqs

\* An RPC handler that is not running.
IdleHandler == [pc |-> "idle", op |-> ZeroOp, index |-> 0]

\* The reply a handler returns, with the handler's Op and index and the path
\* it returned on.
Reply(op, index, err, value, exit) ==
  [op |-> op, index |-> index, Err |-> err, Value |-> value, exit |-> exit]
NoReply == Reply(ZeroOp, 0, ErrUnset, "", "none")

\* The zero value of sync.Mutex: nobody holds kv.mu.
Unlocked == "unlocked"

\* No rf.TakeSnapshot call yet.
NoCompactReq == [index |-> 0, snapshot |-> <<>>]

\* A command-commit notification and a snapshot-install notification.
CommandMsg(index, op) ==
  [CommandValid |-> TRUE, CommandIndex |-> index, Command |-> op]
SnapshotMsg(data) ==
  [CommandValid |-> FALSE, CommandIndex |-> 0, Command |-> data]
NoMsg == [CommandValid |-> FALSE, CommandIndex |-> 0, Command |-> <<>>]

RECURSIVE replay(_, _, _)
\* What a server holding (st, csm) holds after applying the Ops of ops in order.
replay(st, csm, ops) ==
  IF ops = <<>> THEN [store |-> st, clientSeqMap |-> csm]
  ELSE LET r == applyOp(st, csm, Head(ops))
       IN  replay(r.store, r.clientSeqMap, Tail(ops))

\* The request (cid, seq) of the workload, on key.
Request(key, cid, seq) ==
  Op(TypeOf(cid, seq), key,
     IF TypeOf(cid, seq) = GET THEN "" ELSE ValOf(cid, seq), cid, seq)

\* The log a restarted server may find compacted into its persisted snapshot.
BootLog == <<Request("x", 1, 1)>>

\* ------------------------------------------------------------ Init
\* Lines 210-231, StartKVServer: empty maps, then readSnapshot of what the
\* persister holds: nothing, or the snapshot of a previous run.
StartKVServer(boot, mrs) ==
  LET prefix == SubSeq(BootLog, 1, boot)
      prev == replay(EmptyMap, EmptyMap, prefix)
      data == IF boot = 0 THEN <<>>
              ELSE getSnapshot(prev.store, prev.clientSeqMap)
      r == readSnapshot(data, EmptyMap, EmptyMap)
  IN  /\ store = r.store
      /\ clientSeqMap = r.clientSeqMap
      /\ waitChans = EmptyMap
      /\ mu = Unlocked
      /\ dead = 0
      /\ maxraftstate = mrs
      /\ apc = "range"
      /\ msg = NoMsg
      /\ aop = ZeroOp
      /\ hs = [h \in Handlers |-> IdleHandler]
      /\ isLeader = FALSE
      /\ log = prefix
      /\ lastApplied = boot
      /\ issued = {Request("x", cid, 1) : cid \in Cids}
      /\ compactReq = NoCompactReq
      /\ reply = NoReply
      /\ consumed = <<>>
      /\ applyCount = [id \in Ids |-> 0]
      /\ sentOps = EmptyMap
      /\ snapSeqMap = IF r.installed THEN SeqMapIn(data) ELSE EmptyMap
      /\ initial = [store |-> r.store, clientSeqMap |-> r.clientSeqMap]

Init ==
  \E boot \in 0 .. Len(BootLog), mrs \in MaxRaftStates : StartKVServer(boot, mrs)

killed == dead = 1

\* No RPC is returning: a handler's return is the step right after its last
\* one, and nothing else runs in between.
NoReturn == reply = NoReply

\* ------------------------------------------------------------ clerks
\* The highest sequence number clerk cid has issued: every clerk starts with
\* its first request.
CurSeq(cid) ==
  CHOOSE n \in Seqs :
    /\ \E o \in issued : o.Cid = cid /\ o.Seq = n
    /\ \A o \in issued : o.Cid = cid => o.Seq <= n

Committed(cid, seq) ==
  \E i \in 1 .. lastApplied : log[i].Cid = cid /\ log[i].Seq = seq

\* A clerk issues its next request once the previous one is committed (it has
\* had a successful reply from some server; the model lets it go on once this
\* server has been given the entry).  The requests stay in issued: the
\* network may deliver a request again at any later time.
ClerkIssue(cid) ==
  /\ NoReturn
  /\ ~killed
  /\ CurSeq(cid) + 1 \in Seqs
  /\ Committed(cid, CurSeq(cid))
  /\ \E key \in Keys :
       issued' = issued \cup {Request(key, cid, CurSeq(cid) + 1)}
  /\ UNCHANGED <<kvVars, applyVars, hs, raftVars, compactReq, reply, histVars>>

\* ------------------------------------------------------------ Raft
BecomeLeader ==
  /\ NoReturn
  /\ ~killed
  /\ ~isLeader
  /\ isLeader' = TRUE
  /\ UNCHANGED <<kvVars, applyVars, hs, log, lastApplied, clerkVars,
                 compactReq, reply, histVars>>

LoseLeadership ==
  /\ NoReturn
  /\ isLeader
  /\ isLeader' = FALSE
  /\ UNCHANGED <<kvVars, applyVars, hs, log, lastApplied, clerkVars,
                 compactReq, reply, histVars>>

\* While this peer is a follower, another leader's entry (a request some clerk
\* sent to that leader) replaces the uncommitted entries from index keep + 1 on.
ForeignEntry ==
  /\ NoReturn
  /\ ~killed
  /\ ~isLeader
  /\ \E keep \in lastApplied .. Len(log), op \in issued :
       /\ keep < MaxLog
       /\ log' = Append(SubSeq(log, 1, keep), op)
  /\ UNCHANGED <<kvVars, applyVars, hs, isLeader, lastApplied, clerkVars,
                 compactReq, reply, histVars>>

\* rf.Start(op): (index, isLeader) and the log after the call.
Start(op) ==
  IF isLeader
  THEN [index |-> Len(log) + 1, isLeader |-> TRUE, log |-> Append(log, op)]
  ELSE [index |-> 0, isLeader |-> FALSE, log |-> log]

\* ------------------------------------------------------------ the registry
\* Lines 45-55, getWaitCh: the registry after the call (the channel of index
\* is created empty when there is none).
getWaitCh(chans, index) ==
  IF index \in DOMAIN chans THEN chans ELSE MapPut(chans, index, <<>>)

\* ------------------------------------------------------------ handlers
\* Lines 76-84: the reply of Get to the Op received from its channel.
GetReply(op, appliedOp) ==
  IF sameAs(op, appliedOp)
  THEN [Err |-> IF appliedOp.Value = "" THEN ErrNoKey ELSE OK,
        Value |-> appliedOp.Value]
  ELSE [Err |-> ErrUnset, Value |-> ""]

\* PutAppendReply without the sameAs test of line 107.
PutAppendReply_AnyOp(op, appliedOp) == [Err |-> OK, Value |-> ""]

\* Lines 106-109: the reply of PutAppend to the Op received from its channel.
PutAppendReply(op, appliedOp) ==
  IF sameAs(op, appliedOp)
  THEN [Err |-> OK, Value |-> ""]
  ELSE [Err |-> ErrUnset, Value |-> ""]

\* TimeoutReply without the assignment of lines 86 and 111.
TimeoutReply_Unset == [Err |-> ErrUnset, Value |-> ""]

\* Lines 85-87 and 110-112: the reply when the timer fires first.
TimeoutReply == [Err |-> ErrWrongLeader, Value |-> ""]

\* Lines 69-72 and 99-102: the reply when rf.Start says "not the leader".
NotLeaderReply == [Err |-> ErrWrongLeader, Value |-> ""]

\* The RPC server runs each call in a goroutine of its own; the model gives a
\* new call the first handler that is not running.
FirstIdle(h) ==
  \A g \in Handlers : hs[g].pc = "idle" => HandlerRank(h) <= HandlerRank(g)

\* HandlerStart calling getWaitCh before it looks at isLeader.
HandlerStart_WaitFirst(h, op) ==
  /\ NoReturn
  /\ ~killed
  /\ hs[h].pc = "idle"
  /\ FirstIdle(h)
  /\ isLeader => Len(log) < MaxLog
  /\ LET s == Start(op)
     IN  /\ log' = s.log
         /\ waitChans' = getWaitCh(waitChans, s.index)
         /\ IF s.isLeader
            THEN /\ hs' = [hs EXCEPT ![h] =
                            [pc |-> "select", op |-> op, index |-> s.index]]
                 /\ UNCHANGED reply
            ELSE /\ reply' = Reply(op, s.index, NotLeaderReply.Err,
                                   NotLeaderReply.Value, "notLeader")
                 /\ UNCHANGED hs
  /\ UNCHANGED <<store, clientSeqMap, mu, dead, maxraftstate, applyVars, isLeader,
                 lastApplied, clerkVars, compactReq, histVars>>

\* Lines 61-74 and 90-104: an RPC arrives, the handler builds its Op and calls
\* rf.Start; it returns at once when this peer is not the leader, and it gets
\* the channel of its index when it is.  (getWaitCh only adds a channel that
\* is not there, so nothing another goroutine does between the two calls
\* changes what either of them sees.)
HandlerStart(h, op) ==
  /\ NoReturn
  /\ ~killed
  /\ hs[h].pc = "idle"
  /\ FirstIdle(h)
  /\ isLeader => Len(log) < MaxLog
  /\ LET s == Start(op)
     IN  /\ log' = s.log
         /\ IF s.isLeader
            THEN /\ hs' = [hs EXCEPT ![h] =
                            [pc |-> "select", op |-> op, index |-> s.index]]
                 /\ waitChans' = getWaitCh(waitChans, s.index)
                 /\ UNCHANGED reply
            ELSE /\ reply' = Reply(op, s.index, NotLeaderReply.Err,
                                   NotLeaderReply.Value, "notLeader")
                 /\ UNCHANGED <<hs, waitChans>>
  /\ UNCHANGED <<store, clientSeqMap, mu, dead, maxraftstate, applyVars, isLeader,
                 lastApplied, clerkVars, compactReq, histVars>>

Get_Start(h) ==
  \E op \in issued : op.Type = GET /\ HandlerStart(h, op)

PutAppend_Start(h) ==
  \E op \in issued : op.Type \in {PUT, APPEND} /\ HandlerStart(h, op)

\* Lines 76-84 and 106-109: the select takes the Op from the channel.
HandlerRecv(h) ==
  /\ NoReturn
  /\ hs[h].pc = "select"
  /\ Len(waitChans[hs[h].index]) > 0
  /\ LET appliedOp == Head(waitChans[hs[h].index])
         r == IF hs[h].op.Type = GET
              THEN GetReply(hs[h].op, appliedOp)
              ELSE PutAppendReply(hs[h].op, appliedOp)
     IN  reply' = Reply(hs[h].op, hs[h].index, r.Err, r.Value, "received")
  /\ waitChans' = [waitChans EXCEPT ![hs[h].index] = Tail(@)]
  /\ hs' = [hs EXCEPT ![h] = IdleHandler]
  /\ UNCHANGED <<store, clientSeqMap, mu, dead, maxraftstate, applyVars, raftVars,
                 clerkVars, compactReq, histVars>>

\* Lines 85-87 and 110-112: the select takes the timer.
HandlerTimeout(h) ==
  /\ NoReturn
  /\ hs[h].pc = "select"
  /\ reply' = Reply(hs[h].op, hs[h].index, TimeoutReply.Err, TimeoutReply.Value,
                    "timeout")
  /\ hs' = [hs EXCEPT ![h] = IdleHandler]
  /\ UNCHANGED <<kvVars, applyVars, raftVars, clerkVars, compactReq, histVars>>

\* The RPC returns: the reply leaves the server.
HandlerReturn ==
  /\ reply # NoReply
  /\ reply' = NoReply
  /\ UNCHANGED <<kvVars, applyVars, hs, raftVars, clerkVars, compactReq, histVars>>

\* ------------------------------------------------------------ applyCommitted
\* Raft commits the next entry of the log and puts it on applyCh.
NextCommand == CommandMsg(lastApplied + 1, log[lastApplied + 1])

\* Raft puts a snapshot on applyCh instead: the state of a server that has
\* applied the committed entries up to upTo, encoded by that server.
NextSnapshot(upTo) ==
  LET peer == replay(store, clientSeqMap, SubSeq(log, lastApplied + 1, upTo))
  IN  SnapshotMsg(getSnapshot(peer.store, peer.clientSeqMap))

\* snapshotCheck called before the Op is applied: the snapshot is that of the
\* maps as the loop found them.
snapshotCheck_BeforeApply(req, lastAppliedIndex, st, csm, currStateSize) ==
  IF snapshotDue(maxraftstate, currStateSize)
  THEN [index |-> lastAppliedIndex, snapshot |-> getSnapshot(store, clientSeqMap)]
  ELSE req

\* Lines 159-168, snapshotCheck under kv.mu: the TakeSnapshot call it starts,
\* the snapshot encoded before the goroutine runs.
snapshotCheck(req, lastAppliedIndex, st, csm, currStateSize) ==
  IF snapshotDue(maxraftstate, currStateSize)
  THEN [index |-> lastAppliedIndex, snapshot |-> getSnapshot(st, csm)]
  ELSE req

\* applyCommitted_Command going on to the next notification when the Op is a
\* duplicate, without the send of line 147.
applyCommitted_Command_SkipDuplicate ==
  /\ NoReturn
  /\ apc = "range"
  /\ ~killed
  /\ lastApplied < Len(log)
  /\ LET op == NextCommand.Command
         r == applyOp(store, clientSeqMap, op)
     IN  /\ msg' = IF r.applied THEN NextCommand ELSE NoMsg
         /\ store' = r.store
         /\ clientSeqMap' = r.clientSeqMap
         /\ aop' = IF r.applied THEN resolveOp(r.store, op) ELSE ZeroOp
         /\ compactReq' = snapshotCheck(compactReq, NextCommand.CommandIndex,
                                        r.store, r.clientSeqMap, RaftStateSize(log))
         /\ applyCount' = IF r.applied
                          THEN [applyCount EXCEPT ![<<op.Cid, op.Seq>>] = @ + 1]
                          ELSE applyCount
         /\ consumed' = Append(consumed, NextCommand)
         /\ apc' = IF r.applied THEN "send" ELSE "range"
  /\ lastApplied' = lastApplied + 1
  /\ UNCHANGED <<waitChans, mu, dead, maxraftstate, hs, isLeader, log, clerkVars,
                 reply, sentOps, snapSeqMap, initial>>

\* applyCommitted_Command applying the Op only when a handler has registered a
\* channel for its index.
applyCommitted_Command_IfWaited ==
  /\ NoReturn
  /\ apc = "range"
  /\ ~killed
  /\ lastApplied < Len(log)
  /\ LET op == NextCommand.Command
         waited == NextCommand.CommandIndex \in DOMAIN waitChans
         r == IF waited THEN applyOp(store, clientSeqMap, op)
              ELSE [store |-> store, clientSeqMap |-> clientSeqMap, applied |-> FALSE]
     IN  /\ msg' = NextCommand
         /\ store' = r.store
         /\ clientSeqMap' = r.clientSeqMap
         /\ aop' = resolveOp(r.store, op)
         /\ compactReq' = snapshotCheck(compactReq, NextCommand.CommandIndex,
                                        r.store, r.clientSeqMap, RaftStateSize(log))
         /\ applyCount' = IF r.applied
                          THEN [applyCount EXCEPT ![<<op.Cid, op.Seq>>] = @ + 1]
                          ELSE applyCount
         /\ consumed' = Append(consumed, NextCommand)
  /\ lastApplied' = lastApplied + 1
  /\ apc' = "send"
  /\ UNCHANGED <<waitChans, mu, dead, maxraftstate, hs, isLeader, log, clerkVars,
                 reply, sentOps, snapSeqMap, initial>>

\* applyCommitted_Command treating the Op as cancelled when its handler has
\* left the channel of its index.
applyCommitted_Command_DropAbandoned ==
  /\ NoReturn
  /\ apc = "range"
  /\ ~killed
  /\ lastApplied < Len(log)
  /\ LET op == NextCommand.Command
         left == /\ NextCommand.CommandIndex \in DOMAIN waitChans
                 /\ \A h \in Handlers :
                      ~(hs[h].pc = "select" /\ hs[h].index = NextCommand.CommandIndex)
         r == IF left
              THEN [store |-> store, clientSeqMap |-> clientSeqMap, applied |-> FALSE]
              ELSE applyOp(store, clientSeqMap, op)
     IN  /\ msg' = NextCommand
         /\ store' = r.store
         /\ clientSeqMap' = r.clientSeqMap
         /\ aop' = resolveOp(r.store, op)
         /\ compactReq' = snapshotCheck(compactReq, NextCommand.CommandIndex,
                                        r.store, r.clientSeqMap, RaftStateSize(log))
         /\ applyCount' = IF r.applied
                          THEN [applyCount EXCEPT ![<<op.Cid, op.Seq>>] = @ + 1]
                          ELSE applyCount
         /\ consumed' = Append(consumed, NextCommand)
  /\ lastApplied' = lastApplied + 1
  /\ apc' = "send"
  /\ UNCHANGED <<waitChans, mu, dead, maxraftstate, hs, isLeader, log, clerkVars,
                 reply, sentOps, snapSeqMap, initial>>

\* Lines 116-145: the loop takes a command notification and handles it, from
\* kv.mu.Lock() to kv.mu.Unlock().
applyCommitted_Command ==
  /\ NoReturn
  /\ apc = "range"
  /\ ~killed
  /\ lastApplied < Len(log)
  /\ LET op == NextCommand.Command
         r == applyOp(store, clientSeqMap, op)
     IN  /\ msg' = NextCommand
         /\ store' = r.store
         /\ clientSeqMap' = r.clientSeqMap
         /\ aop' = resolveOp(r.store, op)
         /\ compactReq' = snapshotCheck(compactReq, NextCommand.CommandIndex,
                                        r.store, r.clientSeqMap, RaftStateSize(log))
         /\ applyCount' = IF r.applied
                          THEN [applyCount EXCEPT ![<<op.Cid, op.Seq>>] = @ + 1]
                          ELSE applyCount
         /\ consumed' = Append(consumed, NextCommand)
  /\ lastApplied' = lastApplied + 1
  /\ apc' = "send"
  /\ UNCHANGED <<waitChans, mu, dead, maxraftstate, hs, isLeader, log, clerkVars,
                 reply, sentOps, snapSeqMap, initial>>

\* Line 147: kv.getWaitCh(msg.CommandIndex) <- op.  The send blocks while the
\* channel's buffer is full.
applyCommitted_Send ==
  /\ NoReturn
  /\ apc = "send"
  /\ LET chans == getWaitCh(waitChans, msg.CommandIndex)
     IN  /\ Len(chans[msg.CommandIndex]) < WaitChCap
         /\ waitChans' = [chans EXCEPT ![msg.CommandIndex] = Append(@, aop)]
  /\ sentOps' = MapPut(sentOps, msg.CommandIndex, aop)
  /\ apc' = "range"
  /\ msg' = NoMsg
  /\ aop' = ZeroOp
  /\ UNCHANGED <<store, clientSeqMap, mu, dead, maxraftstate, hs, raftVars, clerkVars,
                 compactReq, reply, consumed, applyCount, snapSeqMap, initial>>

\* Lines 116-119 and 148-152: the loop takes a snapshot notification.
applyCommitted_Snapshot ==
  /\ NoReturn
  /\ apc = "range"
  /\ ~killed
  /\ \E upTo \in (lastApplied + 1) .. Len(log) :
       LET r == readSnapshot(NextSnapshot(upTo).Command, store, clientSeqMap)
       IN  /\ store' = r.store
           /\ clientSeqMap' = r.clientSeqMap
           /\ snapSeqMap' = IF r.installed
                            THEN SeqMapIn(NextSnapshot(upTo).Command)
                            ELSE snapSeqMap
           /\ consumed' = Append(consumed, NextSnapshot(upTo))
           /\ lastApplied' = upTo
  /\ UNCHANGED <<waitChans, mu, dead, maxraftstate, applyVars, hs, isLeader, log,
                 clerkVars, compactReq, reply, applyCount, sentOps, initial>>

\* applyCommitted_Killed with the test of kv.killed() at the end of the loop
\* body: the notification is handled before the loop returns.
applyCommitted_Killed_TestLast ==
  /\ NoReturn
  /\ apc = "range"
  /\ killed
  /\ lastApplied < Len(log)
  /\ LET r == applyOp(store, clientSeqMap, NextCommand.Command)
     IN  /\ store' = r.store
         /\ clientSeqMap' = r.clientSeqMap
  /\ lastApplied' = lastApplied + 1
  /\ apc' = "exited"
  /\ UNCHANGED <<waitChans, mu, dead, maxraftstate, msg, aop, hs, isLeader, log,
                 clerkVars, compactReq, reply, histVars>>

\* Lines 116-119: the loop takes a notification after Kill and returns.
applyCommitted_Killed ==
  /\ NoReturn
  /\ apc = "range"
  /\ killed
  /\ \E upTo \in (lastApplied + 1) .. Len(log) : lastApplied' = upTo
  /\ apc' = "exited"
  /\ UNCHANGED <<kvVars, msg, aop, hs, isLeader, log, clerkVars, compactReq, reply,
                 histVars>>

\* Lines 243-247.  The tester kills a server it no longer calls: the model
\* has Kill happen while no RPC handler is running.
Kill ==
  /\ NoReturn
  /\ dead = 0
  /\ \A h \in Handlers : hs[h].pc = "idle"
  /\ dead' = 1
  /\ UNCHANGED <<store, clientSeqMap, waitChans, mu, maxraftstate, applyVars, hs,
                 raftVars, clerkVars, compactReq, reply, histVars>>

RECURSIVE replica(_, _)
\* Lines 115-154 on a server nobody calls: what a server that starts with s
\* holds after its applyCommitted has handled the notifications msgs.
replica(s, msgs) ==
  IF msgs = <<>> THEN s
  ELSE LET m == Head(msgs)
           n == IF m.CommandValid
                THEN applyOp(s.store, s.clientSeqMap, m.Command)
                ELSE readSnapshot(m.Command, s.store, s.clientSeqMap)
       IN  replica([store |-> n.store, clientSeqMap |-> n.clientSeqMap], Tail(msgs))

\* ------------------------------------------------------------ the system
Next ==
  \/ \E cid \in Cids : ClerkIssue(cid)
  \/ BecomeLeader
  \/ LoseLeadership
  \/ ForeignEntry
  \/ \E h \in Handlers : Get_Start(h)
  \/ \E h \in Handlers : PutAppend_Start(h)
  \/ \E h \in Handlers : HandlerRecv(h)
  \/ \E h \in Handlers : HandlerTimeout(h)
  \/ HandlerReturn
  \/ applyCommitted_Command
  \/ applyCommitted_Send
  \/ applyCommitted_Snapshot
  \/ applyCommitted_Killed
  \/ Kill

Spec == Init /\ [][Next]_vars

\* ------------------------------------------------------------ a retried request
\* The system in which one request is retried until it is answered.  The log
\* of the model is bounded, so the other calls, the other leaders' entries
\* and the loss of leadership leave the last place of the log to the retry.
\* The server is not killed, and the clerks issue nothing new.
Tracked == Request("x", 1, 1)

\* The clerk of the tracked request calls PutAppend again.
Retry(h) ==
  /\ Tracked \in issued
  /\ HandlerStart(h, Tracked)

\* Any other call of Get or PutAppend.
OtherCall(h) ==
  /\ isLeader => Len(log) + 1 < MaxLog
  /\ \E op \in issued \ {Tracked} : HandlerStart(h, op)

LiveForeignEntry == ForeignEntry /\ Len(log') < MaxLog

LiveLoseLeadership == Len(log) < MaxLog /\ LoseLeadership

\* A follower gets the leader's snapshot; the leader gets none.
LiveSnapshot == ~isLeader /\ applyCommitted_Snapshot

\* A value is on its way to the channel of h: this peer leads and the entry
\* at the index of h waits to be committed, or is being sent, or is there.
OnItsWay(h) ==
  /\ isLeader
  /\ hs[h].pc = "select"
  /\ \/ lastApplied < hs[h].index /\ hs[h].index <= Len(log)
     \/ apc = "send" /\ msg.CommandIndex = hs[h].index
     \/ Len(waitChans[hs[h].index]) > 0

\* waitApplyTime outlasts a commit while this peer leads: the timer fires
\* first only when no value is on its way.
LiveTimeout(h) == ~OnItsWay(h) /\ HandlerTimeout(h)

LiveNext ==
  \/ BecomeLeader
  \/ LiveLoseLeadership
  \/ LiveForeignEntry
  \/ \E h \in Handlers : Retry(h)
  \/ \E h \in Handlers : OtherCall(h)
  \/ \E h \in Handlers : HandlerRecv(h)
  \/ \E h \in Handlers : LiveTimeout(h)
  \/ HandlerReturn
  \/ applyCommitted_Command
  \/ applyCommitted_Send
  \/ LiveSnapshot

\* Every goroutine that can run does run: the apply loop, the handlers' select
\* and return, the timers; and the clerk goes on calling.
LiveSpec ==
  /\ Init
  /\ [][LiveNext]_vars
  /\ WF_vars(applyCommitted_Command)
  /\ WF_vars(applyCommitted_Send)
  /\ WF_vars(HandlerReturn)
  /\ \A h \in Handlers : WF_vars(HandlerRecv(h))
  /\ \A h \in Handlers : WF_vars(LiveTimeout(h))
  /\ SF_vars(\E h \in Handlers : Retry(h))

\* ------------------------------------------------------------ restarts
\* The server with nobody calling it, restarted from the snapshots it has
\* asked Raft to keep, and given snapshots that are damaged on the way.

\* What can arrive in place of the snapshot data: nothing, the first field
\* alone, the fields in the wrong order, the first field twice.
Damaged(data) ==
  {<<>>, <<data[1]>>, <<data[2], data[1]>>, <<data[1], data[1]>>}

\* Lines 116-119 and 148-152 on a damaged snapshot notification.
applyCommitted_DamagedSnapshot ==
  /\ NoReturn
  /\ apc = "range"
  /\ ~killed
  /\ \E upTo \in (lastApplied + 1) .. Len(log) :
       \E data \in Damaged(NextSnapshot(upTo).Command) :
         LET r == readSnapshot(data, store, clientSeqMap)
         IN  /\ store' = r.store
             /\ clientSeqMap' = r.clientSeqMap
             /\ snapSeqMap' = IF r.installed THEN SeqMapIn(data) ELSE snapSeqMap
             /\ consumed' = Append(consumed, SnapshotMsg(data))
             /\ lastApplied' = upTo
  /\ UNCHANGED <<waitChans, mu, dead, maxraftstate, applyVars, hs, isLeader, log,
                 clerkVars, compactReq, reply, applyCount, sentOps, initial>>

\* Lines 210-231 once more: the server stops and StartKVServer runs on the
\* snapshot of the last rf.TakeSnapshot call; Raft goes on from its index.
Restart ==
  /\ NoReturn
  /\ compactReq # NoCompactReq
  /\ LET data == compactReq.snapshot
         r == readSnapshot(data, EmptyMap, EmptyMap)
     IN  /\ store' = r.store
         /\ clientSeqMap' = r.clientSeqMap
         /\ snapSeqMap' = IF r.installed THEN SeqMapIn(data) ELSE EmptyMap
         /\ initial' = [store |-> r.store, clientSeqMap |-> r.clientSeqMap]
  /\ waitChans' = EmptyMap
  /\ mu' = Unlocked
  /\ dead' = 0
  /\ apc' = "range"
  /\ msg' = NoMsg
  /\ aop' = ZeroOp
  /\ hs' = [h \in Handlers |-> IdleHandler]
  /\ isLeader' = FALSE
  /\ lastApplied' = compactReq.index
  /\ consumed' = <<>>
  /\ applyCount' = [id \in Ids |-> 0]
  /\ sentOps' = EmptyMap
  /\ UNCHANGED <<maxraftstate, log, clerkVars, compactReq, reply>>

RestoreNext ==
  \/ \E cid \in Cids : ClerkIssue(cid)
  \/ ForeignEntry
  \/ applyCommitted_Command
  \/ applyCommitted_Send
  \/ applyCommitted_Snapshot
  \/ applyCommitted_DamagedSnapshot
  \/ Restart

RestoreSpec == Init /\ [][RestoreNext]_vars

\* ------------------------------------------------------------ thresholds
\* The maxraftstate a server may be started with (lines 202-217): -1 for "no
\* snapshots", or a size in bytes.
ThresholdMaxRaftStates == {-1, 0, 10}

ThresholdInit ==
  \E boot \in 0 .. Len(BootLog), mrs \in ThresholdMaxRaftStates :
    StartKVServer(boot, mrs)

\* The apply loop of a server of each maxraftstate, fed by the clerks'
\* requests as other leaders commit them.
ThresholdNext ==
  \/ \E cid \in Cids : ClerkIssue(cid)
  \/ ForeignEntry
  \/ applyCommitted_Command
  \/ applyCommitted_Send
  \/ applyCommitted_Snapshot

ThresholdSpec == ThresholdInit /\ [][ThresholdNext]_vars

\* ------------------------------------------------------------ kv.mu
\* Spec takes each critical section in one step.  LockSpec takes the
\* goroutines apart at every kv.mu.Lock(), which waits while another goroutine
\* holds the mutex, and at every blocking operation: the receive from applyCh,
\* the send into a channel, the select of a handler.  Its log holds what the
\* handlers of this server start.
ApplyLoop == "applyCommitted"

\* kv.mu.Lock() by goroutine t; sync.Mutex is not reentrant.
Lock(t) == mu = Unlocked /\ mu' = t
\* kv.mu.Unlock().
Unlock == mu' = Unlocked

\* Lines 116-121: the loop takes a command notification from applyCh.
applyCommitted_Range ==
  /\ NoReturn
  /\ apc = "range"
  /\ ~killed
  /\ lastApplied < Len(log)
  /\ msg' = NextCommand
  /\ lastApplied' = lastApplied + 1
  /\ consumed' = Append(consumed, NextCommand)
  /\ apc' = "Lock"
  /\ UNCHANGED <<kvVars, aop, hs, isLeader, log, clerkVars, compactReq, reply,
                 applyCount, sentOps, snapSeqMap, initial>>

\* Line 123: kv.mu.Lock().
applyCommitted_Lock ==
  /\ NoReturn
  /\ apc = "Lock"
  /\ Lock(ApplyLoop)
  /\ apc' = "locked"
  /\ UNCHANGED <<store, clientSeqMap, waitChans, dead, maxraftstate, msg, aop, hs,
                 raftVars, clerkVars, compactReq, reply, histVars>>

\* applyCommitted_Locked without the Unlock of line 145: the loop calls
\* getWaitCh with kv.mu held.
applyCommitted_Locked_NoUnlock ==
  /\ NoReturn
  /\ apc = "locked"
  /\ LET op == msg.Command
         r == applyOp(store, clientSeqMap, op)
     IN  /\ store' = r.store
         /\ clientSeqMap' = r.clientSeqMap
         /\ aop' = resolveOp(r.store, op)
         /\ compactReq' = snapshotCheck(compactReq, msg.CommandIndex,
                                        r.store, r.clientSeqMap, RaftStateSize(log))
         /\ applyCount' = IF r.applied
                          THEN [applyCount EXCEPT ![<<op.Cid, op.Seq>>] = @ + 1]
                          ELSE applyCount
  /\ apc' = "getWaitCh"
  /\ UNCHANGED <<waitChans, mu, dead, maxraftstate, msg, hs, raftVars, clerkVars,
                 reply, consumed, sentOps, snapSeqMap, initial>>

\* Lines 125-145: the duplicate test, the Op applied, snapshotCheck, and
\* kv.mu.Unlock().
applyCommitted_Locked ==
  /\ NoReturn
  /\ apc = "locked"
  /\ LET op == msg.Command
         r == applyOp(store, clientSeqMap, op)
     IN  /\ store' = r.store
         /\ clientSeqMap' = r.clientSeqMap
         /\ aop' = resolveOp(r.store, op)
         /\ compactReq' = snapshotCheck(compactReq, msg.CommandIndex,
                                        r.store, r.clientSeqMap, RaftStateSize(log))
         /\ applyCount' = IF r.applied
                          THEN [applyCount EXCEPT ![<<op.Cid, op.Seq>>] = @ + 1]
                          ELSE applyCount
  /\ Unlock
  /\ apc' = "getWaitCh"
  /\ UNCHANGED <<waitChans, dead, maxraftstate, msg, hs, raftVars, clerkVars,
                 reply, consumed, sentOps, snapSeqMap, initial>>

\* Line 147 calls getWaitCh; line 46: kv.mu.Lock().
applyCommitted_WaitChLock ==
  /\ NoReturn
  /\ apc = "getWaitCh"
  /\ Lock(ApplyLoop)
  /\ apc' = "inGetWaitCh"
  /\ UNCHANGED <<store, clientSeqMap, waitChans, dead, maxraftstate, msg, aop, hs,
                 raftVars, clerkVars, compactReq, reply, histVars>>

\* Lines 47-54: the channel looked up or made, and the deferred Unlock.
applyCommitted_WaitCh ==
  /\ NoReturn
  /\ apc = "inGetWaitCh"
  /\ waitChans' = getWaitCh(waitChans, msg.CommandIndex)
  /\ Unlock
  /\ apc' = "send"
  /\ UNCHANGED <<store, clientSeqMap, dead, maxraftstate, msg, aop, hs, raftVars,
                 clerkVars, compactReq, reply, histVars>>

\* Lines 116-121 and 148-150: the loop takes a snapshot notification and
\* calls readSnapshot.
applyCommitted_RangeSnapshot ==
  /\ NoReturn
  /\ apc = "range"
  /\ ~killed
  /\ \E upTo \in (lastApplied + 1) .. Len(log) :
       /\ msg' = NextSnapshot(upTo)
       /\ consumed' = Append(consumed, NextSnapshot(upTo))
       /\ lastApplied' = upTo
  /\ apc' = "readSnapshot"
  /\ UNCHANGED <<kvVars, aop, hs, isLeader, log, clerkVars, compactReq, reply,
                 applyCount, sentOps, snapSeqMap, initial>>

\* Line 180: kv.mu.Lock() in readSnapshot.
readSnapshot_Lock ==
  /\ NoReturn
  /\ apc = "readSnapshot"
  /\ Lock(ApplyLoop)
  /\ apc' = "inReadSnapshot"
  /\ UNCHANGED <<store, clientSeqMap, waitChans, dead, maxraftstate, msg, aop, hs,
                 raftVars, clerkVars, compactReq, reply, histVars>>

\* Lines 181-199: the snapshot decoded and installed, and the deferred Unlock.
readSnapshot_Locked ==
  /\ NoReturn
  /\ apc = "inReadSnapshot"
  /\ LET r == readSnapshot(msg.Command, store, clientSeqMap)
     IN  /\ store' = r.store
         /\ clientSeqMap' = r.clientSeqMap
         /\ snapSeqMap' = IF r.installed THEN SeqMapIn(msg.Command) ELSE snapSeqMap
  /\ Unlock
  /\ msg' = NoMsg
  /\ apc' = "range"
  /\ UNCHANGED <<waitChans, dead, maxraftstate, aop, hs, raftVars, clerkVars,
                 compactReq, reply, consumed, applyCount, sentOps, initial>>

\* Lines 61-72 and 90-102: an RPC arrives, the handler builds its Op and calls
\* rf.Start; it returns at once when this peer is not the leader.
Handler_Start(h) ==
  /\ NoReturn
  /\ ~killed
  /\ hs[h].pc = "idle"
  /\ FirstIdle(h)
  /\ isLeader => Len(log) < MaxLog
  /\ \E op \in issued :
       LET s == Start(op)
       IN  /\ log' = s.log
           /\ IF s.isLeader
              THEN /\ hs' = [hs EXCEPT ![h] =
                              [pc |-> "getWaitCh", op |-> op, index |-> s.index]]
                   /\ UNCHANGED reply
              ELSE /\ reply' = Reply(op, s.index, NotLeaderReply.Err,
                                     NotLeaderReply.Value, "notLeader")
                   /\ UNCHANGED hs
  /\ UNCHANGED <<kvVars, applyVars, isLeader, lastApplied, clerkVars, compactReq,
                 histVars>>

\* Lines 74 and 104 call getWaitCh; line 46: kv.mu.Lock().
Handler_WaitChLock(h) ==
  /\ NoReturn
  /\ hs[h].pc = "getWaitCh"
  /\ Lock(h)
  /\ hs' = [hs EXCEPT ![h].pc = "inGetWaitCh"]
  /\ UNCHANGED <<store, clientSeqMap, waitChans, dead, maxraftstate, applyVars,
                 raftVars, clerkVars, compactReq, reply, histVars>>

\* Lines 47-54: the channel looked up or made, and the deferred Unlock; the
\* handler goes to its select.
Handler_WaitCh(h) ==
  /\ NoReturn
  /\ hs[h].pc = "inGetWaitCh"
  /\ waitChans' = getWaitCh(waitChans, hs[h].index)
  /\ Unlock
  /\ hs' = [hs EXCEPT ![h].pc = "select"]
  /\ UNCHANGED <<store, clientSeqMap, dead, maxraftstate, applyVars, raftVars,
                 clerkVars, compactReq, reply, histVars>>

LockNext ==
  \/ \E cid \in Cids : ClerkIssue(cid)
  \/ BecomeLeader
  \/ LoseLeadership
  \/ \E h \in Handlers : Handler_Start(h)
  \/ \E h \in Handlers : Handler_WaitChLock(h)
  \/ \E h \in Handlers : Handler_WaitCh(h)
  \/ \E h \in Handlers : HandlerRecv(h)
  \/ \E h \in Handlers : HandlerTimeout(h)
  \/ HandlerReturn
  \/ applyCommitted_Range
  \/ applyCommitted_Lock
  \/ applyCommitted_Locked
  \/ applyCommitted_WaitChLock
  \/ applyCommitted_WaitCh
  \/ applyCommitted_Send
  \/ applyCommitted_RangeSnapshot
  \/ readSnapshot_Lock
  \/ readSnapshot_Locked
  \/ applyCommitted_Killed
  \/ Kill

LockSpec == Init /\ [][LockNext]_vars

\* ------------------------------------------------------------ reference
\* The key/value service the server implements, written without the server's
\* code: a table of keys and, per client, the last sequence number served.
RefEmpty == [kv |-> EmptyMap, table |-> EmptyMap]

RefSeen(s, cid) == IF cid \in DOMAIN s.table THEN s.table[cid] ELSE 0
RefValue(s, key) == IF key \in DOMAIN s.kv THEN s.kv[key] ELSE ""
RefWrite(f, k, v) == [x \in (DOMAIN f) \cup {k} |-> IF x = k THEN v ELSE f[x]]

\* One command in its turn: it counts when its Seq is above the client's entry.
RefStep(s, op) ==
  IF op.Seq <= RefSeen(s, op.Cid) THEN s
  ELSE [kv |-> IF op.Type = PUT THEN RefWrite(s.kv, op.Key, op.Value)
               ELSE IF op.Type = APPEND
                    THEN RefWrite(s.kv, op.Key, RefValue(s, op.Key) \o op.Value)
                    ELSE s.kv,
        table |-> RefWrite(s.table, op.Cid, op.Seq)]

RECURSIVE RefFold(_)
\* The commands of ops folded in order, from the empty service.
RefFold(ops) ==
  IF ops = <<>> THEN RefEmpty
  ELSE RefStep(RefFold(SubSeq(ops, 1, Len(ops) - 1)), ops[Len(ops)])

\* The commands among the notifications taken so far.
IsCommand(m) == m.CommandValid
CommandsOf(msgs) == [k \in 1 .. Len(msgs) |-> msgs[k].Command]
OnlyCommands(msgs) == \A k \in 1 .. Len(msgs) : IsCommand(msgs[k])

\* The step in which applyCommitted handles a command notification, and the
\* command it handles.
CommandStep == apc = "range" /\ apc' = "send"
DuplicateOf(op, csm) == op.Seq <= MapGet(csm, op.Cid, 0)

\* ------------------------------------------------------------ C1
\* C1 (dedup idempotence): every (Cid, Seq) passes the duplicate check, and so
\* changes store, at most once; a command notification whose Seq is not above
\* clientSeqMap[Cid] leaves store and clientSeqMap as they are; and every
\* command notification, a duplicate too, has its Op sent into the channel of
\* its log index once applyCommitted is through with it.
C1_AtMostOnce == \A id \in Ids : applyCount[id] <= 1

C1_DuplicateUnchanged ==
  (CommandStep /\ DuplicateOf(msg'.Command, clientSeqMap))
    => (store' = store /\ clientSeqMap' = clientSeqMap /\ sameAs(aop', msg'.Command))

C1_Delivered ==
  \A k \in 1 .. Len(consumed) :
    IsCommand(consumed[k]) =>
      \/ k = Len(consumed) /\ apc = "send" /\ msg = consumed[k]
      \/ /\ consumed[k].CommandIndex \in DOMAIN sentOps
         /\ sameAs(sentOps[consumed[k].CommandIndex], consumed[k].Command)

C1_DedupIdempotence ==
  /\ []C1_AtMostOnce
  /\ [][C1_DuplicateUnchanged]_vars
  /\ []C1_Delivered

\* A duplicate has been taken and delivered: two command notifications of the
\* same (Cid, Seq), the second one sent into the channel of its index.
C1_Witness ==
  \E j, k \in 1 .. Len(consumed) :
    /\ j < k
    /\ IsCommand(consumed[j]) /\ IsCommand(consumed[k])
    /\ sameAs(consumed[j].Command, consumed[k].Command)
    /\ consumed[k].CommandIndex \in DOMAIN sentOps

\* ------------------------------------------------------------ C2
Successes == {OK, ErrNoKey}

\* C2 (read after write): the value a Get returns with OK or ErrNoKey is the
\* value its key has in the reference service once every entry of the log up
\* to the Get's own index has had its turn, and ErrNoKey goes with the empty
\* value; the Get entry may itself be a duplicate.
C2_ReadAfterWrite ==
  (reply.exit = "received" /\ reply.op.Type = GET /\ reply.Err \in Successes)
    => /\ reply.Value = RefValue(RefFold(SubSeq(log, 1, reply.index)), reply.op.Key)
       /\ reply.Err = ErrNoKey <=> reply.Value = ""

\* A Get returns OK with the value written by an entry committed before it.
C2_Witness ==
  /\ reply.exit = "received" /\ reply.op.Type = GET /\ reply.Err = OK
  /\ \E j \in 1 .. (reply.index - 1) :
       log[j].Type = APPEND /\ log[j].Key = reply.op.Key /\ reply.Value = log[j].Value

\* ------------------------------------------------------------ C3
\* C3 (identity mismatch): a handler that receives an Op of another (Cid, Seq)
\* replies ErrWrongLeader, and every reply carries one of OK, ErrNoKey and
\* ErrWrongLeader.
C3_MismatchIsWrongLeader ==
  /\ (reply.exit = "received" /\ ~sameAs(reply.op, sentOps[reply.index]))
       => reply.Err = ErrWrongLeader
  /\ reply.exit # "none" => reply.Err \in {OK, ErrNoKey, ErrWrongLeader}

\* ------------------------------------------------------------ C4
\* C4 (success implies committed): a handler replies OK or ErrNoKey only after
\* applyCommitted has handled a command notification at the handler's index
\* with the handler's (Cid, Seq) and sent it; with an OK of PutAppend,
\* clientSeqMap[Cid] >= Seq and the request has passed the duplicate check
\* once on this server or is part of the snapshot this server installed.
C4_SuccessImpliesCommitted ==
  reply.Err \in Successes =>
    /\ reply.exit = "received"
    /\ reply.index <= lastApplied
    /\ \E k \in 1 .. Len(consumed) :
         /\ IsCommand(consumed[k])
         /\ consumed[k].CommandIndex = reply.index
         /\ sameAs(consumed[k].Command, reply.op)
    /\ reply.index \in DOMAIN sentOps /\ sameAs(sentOps[reply.index], reply.op)
    /\ reply.op.Type # GET =>
         /\ MapGet(clientSeqMap, reply.op.Cid, 0) >= reply.op.Seq
         /\ \/ applyCount[<<reply.op.Cid, reply.op.Seq>>] = 1
            \/ MapGet(snapSeqMap, reply.op.Cid, 0) >= reply.op.Seq

\* PutAppend returns OK.
C4_Witness ==
  reply.exit = "received" /\ reply.op.Type = APPEND /\ reply.Err = OK

\* ------------------------------------------------------------ C5
\* C5 (replica determinism): whatever the handlers do, the server holds what a
\* server nobody calls holds after the same notifications from the same start.
C5_ReplicaDeterminism ==
  [store |-> store, clientSeqMap |-> clientSeqMap] = replica(initial, consumed)

\* Two notifications taken while one handler waits and another times out.
C5_Witness ==
  /\ Len(consumed) >= 2
  /\ reply.exit = "timeout"
  /\ \E h \in Handlers : hs[h].pc = "select"

\* ------------------------------------------------------------ C6
TrackedSuccess ==
  reply.exit = "received" /\ sameAs(reply.op, Tracked) /\ reply.Err = OK

HandlerStep == hs' # hs \/ reply' # reply
TimeoutStep == reply = NoReply /\ reply'.exit = "timeout"

\* C7 (timeout safety): a handler whose timer fires first replies
\* ErrWrongLeader, and no step of any handler changes store or clientSeqMap.
C7_TimeoutSafety ==
  /\ [][TimeoutStep => reply'.Err = ErrWrongLeader]_vars
  /\ [][HandlerStep => UNCHANGED <<store, clientSeqMap>>]_vars

\* A handler times out although its entry has been committed and applied.
C7_Witness ==
  /\ reply.exit = "timeout"
  /\ reply.index <= lastApplied
  /\ sameAs(log[reply.index], reply.op)
  /\ applyCount[<<reply.op.Cid, reply.op.Seq>>] = 1

\* ------------------------------------------------------------ C8
NotLeaderStep == reply = NoReply /\ reply'.exit = "notLeader"
BlockStep == \E h \in Handlers : hs[h].pc = "idle" /\ hs'[h].pc = "select"

\* C8 (non-leader fast path): a call that arrives while this peer is not the
\* leader is answered ErrWrongLeader in the step of rf.Start, with no handler
\* left waiting and store, clientSeqMap and the registry as they were; a
\* handler starts to wait only on the leader.
C8_NonLeaderFastPath ==
  /\ [][NotLeaderStep =>
          /\ reply'.Err = ErrWrongLeader
          /\ UNCHANGED <<store, clientSeqMap, waitChans, hs, log>>]_vars
  /\ [][BlockStep => isLeader]_vars
  /\ [](reply.exit = "notLeader" => ~isLeader)

\* A call is answered "not the leader" while another handler waits.
C8_Witness ==
  /\ reply.exit = "notLeader" /\ reply.Err = ErrWrongLeader
  /\ \E h \in Handlers : hs[h].pc = "select"

\* ------------------------------------------------------------ C9
\* C9 (reference fold): on a server that started empty and has taken only
\* command notifications, store and clientSeqMap are those of the reference
\* service after the same commands.
C9_StoreIsReferenceFold ==
  (initial = [store |-> EmptyMap, clientSeqMap |-> EmptyMap] /\ OnlyCommands(consumed))
    => /\ store = RefFold(CommandsOf(consumed)).kv
       /\ clientSeqMap = RefFold(CommandsOf(consumed)).table

\* Two Appends of one client, applied in order from the empty server.
C9_Witness ==
  /\ initial = [store |-> EmptyMap, clientSeqMap |-> EmptyMap]
  /\ OnlyCommands(consumed)
  /\ Len(consumed) = 2
  /\ consumed[1].Command.Type = APPEND /\ consumed[2].Command.Type = APPEND
  /\ consumed[1].Command.Seq < consumed[2].Command.Seq
  /\ MapGet(store, "x", "") = consumed[1].Command.Value \o consumed[2].Command.Value

\* ------------------------------------------------------------ C10
\* C10 (dedup after restore): once a snapshot is installed whose clientSeqMap
\* has n for client c, a command of c with Seq <= n leaves store as it was.
C10_PostRestoreDedup ==
  [][(CommandStep /\ DuplicateOf(msg'.Command, snapSeqMap)) => store' = store]_vars

\* The loop has taken a command that only the installed snapshot knows.
C10_Witness ==
  /\ apc = "send"
  /\ DuplicateOf(msg.Command, snapSeqMap)
  /\ applyCount[<<msg.Command.Cid, msg.Command.Seq>>] = 0
  /\ msg.Command.Type = APPEND

\* ------------------------------------------------------------ C11
\* The notifications of msgs up to the command of index: what the server had
\* taken when it encoded the snapshot of that index.
PrefixTo(msgs, index) ==
  LET at == {k \in 1 .. Len(msgs) : IsCommand(msgs[k]) /\ msgs[k].CommandIndex = index}
  IN  IF at = {} THEN <<>> ELSE SubSeq(msgs, 1, CHOOSE k \in at : TRUE)

RestartStep == consumed # <<>> /\ consumed' = <<>>

\* C11 (snapshot round trip): readSnapshot of getSnapshot gives back store and
\* clientSeqMap, and a server restarted from the snapshot of a compaction
\* request holds what the server held when it encoded that snapshot.
C11_SnapshotRoundTrip ==
  /\ [](readSnapshot(getSnapshot(store, clientSeqMap), EmptyMap, EmptyMap)
          = [store |-> store, clientSeqMap |-> clientSeqMap, installed |-> TRUE])
  /\ [][RestartStep =>
          [store |-> store', clientSeqMap |-> clientSeqMap']
            = replica(initial, PrefixTo(consumed, compactReq.index))]_vars

\* A server restarted from a compaction snapshot that holds a value and a
\* table entry.
C11_Witness ==
  /\ consumed = <<>>
  /\ compactReq # NoCompactReq
  /\ lastApplied = compactReq.index
  /\ MapGet(store, "x", "") # ""
  /\ clientSeqMap # EmptyMap
  /\ initial = [store |-> store, clientSeqMap |-> clientSeqMap]

\* ------------------------------------------------------------ C12
SnapshotStep ==
  /\ Len(consumed') = Len(consumed) + 1
  /\ ~IsCommand(consumed'[Len(consumed')])

\* C12 (restore is all or nothing): a snapshot notification either replaces
\* store and clientSeqMap by the two maps of the payload, both fields having
\* decoded, or leaves both as they were; the loop goes on either way.
C12_RestoreAllOrNothing ==
  [][SnapshotStep =>
       LET data == consumed'[Len(consumed')].Command
           s == Decode(data, 1, KindStore)
           c == Decode(data, 2, KindSeqMap)
       IN  /\ \/ /\ Len(data) >= 1 /\ ~s.err /\ ~c.err
                 /\ store' = s.val /\ clientSeqMap' = c.val
              \/ /\ Len(data) < 1 \/ s.err \/ c.err
                 /\ UNCHANGED <<store, clientSeqMap>>
           /\ apc' = "range" /\ dead' = 0]_vars

\* The loop has taken a snapshot whose first field decodes to another store
\* than the server's and whose second field does not decode.
C12_Witness ==
  /\ consumed # <<>>
  /\ LET data == consumed[Len(consumed)].Command
     IN  /\ ~IsCommand(consumed[Len(consumed)])
         /\ Len(data) >= 1
         /\ ~Decode(data, 1, KindStore).err
         /\ Decode(data, 2, KindSeqMap).err
         /\ Decode(data, 1, KindStore).val # store

C14_SendNeverBlocks ==
  /\ []((apc = "send" /\ NoReturn) => ENABLED applyCommitted_Send)
  /\ [](apc = "send" => msg.CommandIndex \notin DOMAIN sentOps)
  /\ [](\A i \in DOMAIN waitChans : Len(waitChans[i]) <= 1)
  /\ [][DOMAIN waitChans \subseteq DOMAIN waitChans']_vars

\* The loop is at the send for an index whose handler has timed out, while
\* the value of an earlier index is still unread in its channel.
C14_Witness ==
  /\ apc = "send"
  /\ msg.CommandIndex \in DOMAIN waitChans
  /\ \A h \in Handlers : ~(hs[h].pc = "select" /\ hs[h].index = msg.CommandIndex)
  /\ \E i \in DOMAIN waitChans : i < msg.CommandIndex /\ Len(waitChans[i]) = 1

\* ------------------------------------------------------------ C15
\* C15 (one waiter per index): no two handlers wait on the channel of the same
\* index, and the value a handler takes from its channel is the Op of its own
\* (Cid, Seq).
C15_OneWaiterPerIndex ==
  /\ \A g, h \in Handlers :
       (g # h /\ hs[g].pc = "select" /\ hs[h].pc = "select")
         => hs[g].index # hs[h].index
  /\ reply.exit = "received" => sameAs(reply.op, sentOps[reply.index])

\* ------------------------------------------------------------ C16
\* C16 (the compaction snapshot): an rf.TakeSnapshot call is started only in
\* the handling of a command, with the command's index and the snapshot of
\* store and clientSeqMap as that command left them; the loop is then at its
\* send, not waiting for the call; and whatever is applied afterwards, the
\* snapshot of the call decodes to the state of the service after the log up
\* to its index.
C16_CompactionSnapshot ==
  /\ [][compactReq' # compactReq =>
          /\ CommandStep
          /\ compactReq' = [index |-> msg'.CommandIndex,
                            snapshot |-> getSnapshot(store', clientSeqMap')]]_vars
  /\ [](compactReq # NoCompactReq =>
          LET r == readSnapshot(compactReq.snapshot, EmptyMap, EmptyMap)
              ref == RefFold(SubSeq(log, 1, compactReq.index))
          IN  r.installed /\ r.store = ref.kv /\ r.clientSeqMap = ref.table)

\* The call for index 1 is out, the server has gone on to another state.
C16_Witness ==
  /\ compactReq # NoCompactReq
  /\ compactReq.index < lastApplied
  /\ compactReq.snapshot # getSnapshot(store, clientSeqMap)

\* ------------------------------------------------------------ C17
\* A handler waits on the channel of index i; the channel of index i is in the
\* registry and no handler waits on it: whoever asked for it has left.
Waited(i) == \E h \in Handlers : hs[h].pc = "select" /\ hs[h].index = i
Abandoned(i) == i \in DOMAIN waitChans /\ ~Waited(i)
RecvStep == reply = NoReply /\ reply'.exit = "received"

\* C17 (no cancellation): a command whose handler has left the channel of its
\* index is applied like any other, once when its Seq is above the client's
\* entry; the send into the channel nobody waits on can be done; the value
\* sent stays in that channel, which no handler waits on again; and a handler
\* that takes the Op of another request from its channel does not reply with
\* a success or a value.
C17_NoCancellation ==
  /\ [][(CommandStep /\ Abandoned(msg'.CommandIndex)) =>
          LET op == msg'.Command
              s == RefStep([kv |-> store, table |-> clientSeqMap], op)
              id == <<op.Cid, op.Seq>>
          IN  /\ store' = s.kv /\ clientSeqMap' = s.table
              /\ applyCount'[id] =
                   IF DuplicateOf(op, clientSeqMap) THEN applyCount[id]
                   ELSE applyCount[id] + 1
              /\ applyCount'[id] <= 1]_vars
  /\ []((apc = "send" /\ NoReturn /\ Abandoned(msg.CommandIndex))
          => ENABLED applyCommitted_Send)
  /\ [][\A i \in DOMAIN waitChans :
          (waitChans[i] # <<>> /\ ~Waited(i)) =>
            /\ waitChans'[i] = waitChans[i]
            /\ \A h \in Handlers : ~(hs'[h].pc = "select" /\ hs'[h].index = i)]_vars
  /\ [][(RecvStep /\ ~sameAs(reply'.op, Head(waitChans[reply'.index]))) =>
          reply'.Err \notin Successes /\ reply'.Value = ""]_vars

\* The loop has applied, for the first time, the request of a handler that
\* has timed out, and is at the send into the channel that handler left.
C17_Witness ==
  /\ apc = "send"
  /\ Abandoned(msg.CommandIndex)
  /\ sameAs(aop, log[msg.CommandIndex])
  /\ applyCount[<<aop.Cid, aop.Seq>>] = 1
  /\ \A k \in 1 .. (Len(consumed) - 1) :
       ~(IsCommand(consumed[k]) /\ sameAs(consumed[k].Command, aop))
  /\ MapGet(snapSeqMap, aop.Cid, 0) < aop.Seq

\* ------------------------------------------------------------ C18
\* The loop takes a notification from applyCh; the loop returns.
TakeStep == lastApplied' # lastApplied
ExitStep == apc # "exited" /\ apc' = "exited"

\* C18 (shutdown): with the dead flag set, the loop returns at the next
\* notification it takes, and a notification taken after the flag was set
\* changes neither store nor clientSeqMap nor any channel (the one notification
\* the loop was handling when the flag was set is still sent); the loop returns
\* only with the flag set, in a step of its own that is no step of a handler;
\* and after its return nothing changes store, clientSeqMap or the channels'
\* values.
C18_Shutdown ==
  /\ [][(dead = 1 /\ TakeStep) =>
          /\ apc' = "exited"
          /\ UNCHANGED <<store, clientSeqMap, waitChans, sentOps, compactReq>>]_vars
  /\ []((dead = 1 /\ apc = "range" /\ NoReturn /\ lastApplied < Len(log))
          => ENABLED applyCommitted_Killed)
  /\ [][(dead = 1 /\ apc = "range") => apc' \in {"range", "exited"}]_vars
  /\ [][ExitStep => dead = 1 /\ TakeStep /\ ~HandlerStep]_vars
  /\ [](apc = "exited" => dead = 1)
  /\ [][apc = "exited" =>
          /\ apc' = "exited"
          /\ UNCHANGED <<store, clientSeqMap, sentOps, lastApplied>>]_vars
  /\ [][dead = 1 => dead' = 1]_vars

\* The loop has handled and sent commands, and has returned on a committed
\* command that it did not apply.
C18_Witness ==
  /\ apc = "exited"
  /\ consumed # <<>> /\ OnlyCommands(consumed)
  /\ sentOps # EmptyMap
  /\ store # RefFold(SubSeq(log, 1, lastApplied)).kv

\* ------------------------------------------------------------ C19
\* C19 (snapshot trigger): the handling of a command notification, a
\* duplicate or not, starts an rf.TakeSnapshot call for its index exactly when
\* maxraftstate is not -1 and ten times the size of the saved Raft state is
\* above seven times maxraftstate; a server started with maxraftstate = -1
\* never starts one; and the handling of a snapshot notification starts none.
C19_SnapshotTrigger ==
  /\ [][CommandStep =>
          IF maxraftstate # -1 /\ 10 * RaftStateSize(log) > 7 * maxraftstate
          THEN /\ compactReq' # compactReq
               /\ compactReq'.index = msg'.CommandIndex
          ELSE compactReq' = compactReq]_vars
  /\ [](maxraftstate = -1 => compactReq = NoCompactReq)
  /\ [][SnapshotStep => compactReq' = compactReq]_vars
  /\ [][compactReq' # compactReq => CommandStep]_vars

\* With maxraftstate = 10 the entry applied at a saved state of 7 bytes
\* started no call, and the duplicate applied after it, at 11 bytes, did.
C19_Witness ==
  /\ maxraftstate = 10
  /\ compactReq # NoCompactReq
  /\ compactReq.index = 2
  /\ initial.clientSeqMap = EmptyMap
  /\ sameAs(log[1], log[2])
  /\ Len(consumed) = 2 /\ OnlyCommands(consumed)
  /\ readSnapshot(compactReq.snapshot, EmptyMap, EmptyMap).store
       = RefFold(<<log[1]>>).kv

\* ------------------------------------------------------------ C20
\* The goroutines waiting in a kv.mu.Lock().
AtLock ==
  {h \in Handlers : hs[h].pc = "getWaitCh"}
    \cup (IF apc \in {"Lock", "getWaitCh", "readSnapshot"} THEN {ApplyLoop} ELSE {})
\* A goroutine gets kv.mu; the goroutine that holds kv.mu does its next step.
LockStep ==
  \/ applyCommitted_Lock
  \/ applyCommitted_WaitChLock
  \/ readSnapshot_Lock
  \/ \E h \in Handlers : Handler_WaitChLock(h)
HolderStep ==
  \/ applyCommitted_Locked
  \/ applyCommitted_WaitCh
  \/ readSnapshot_Locked
  \/ \E h \in Handlers : Handler_WaitCh(h)
\* A step reads or writes store or clientSeqMap; a step writes the registry.
MapsStep ==
  \/ store' # store
  \/ clientSeqMap' # clientSeqMap
  \/ aop' \notin {aop, ZeroOp}
  \/ compactReq' # compactReq
RegistryStep == DOMAIN waitChans' # DOMAIN waitChans

\* C20 (lock discipline): store and clientSeqMap are read and written only by
\* the apply loop in a step it starts with kv.mu held, and the registry is
\* written only by the goroutine that holds kv.mu; a goroutine holds kv.mu
\* only inside lines 123-145, getWaitCh or readSnapshot, never at the receive
\* from applyCh, at a send or in a select, and its next step there can always
\* be done and releases or keeps the mutex without waiting; the loop calls
\* getWaitCh with kv.mu released; and whenever goroutines wait in Lock(), one
\* of them or the holder can go on.
C20_LockDiscipline ==
  /\ [][MapsStep => mu = ApplyLoop /\ apc' # apc]_vars
  /\ [][RegistryStep =>
          \/ mu = ApplyLoop /\ apc' # apc
          \/ \E h \in Handlers : mu = h /\ hs'[h] # hs[h]]_vars
  /\ [](mu = ApplyLoop => apc \in {"locked", "inGetWaitCh", "inReadSnapshot"})
  /\ [](\A h \in Handlers : mu = h => hs[h].pc = "inGetWaitCh")
  /\ [](mu \in {Unlocked, ApplyLoop} \cup Handlers)
  /\ [](apc = "getWaitCh" => mu # ApplyLoop)
  /\ []((mu # Unlocked /\ NoReturn) => ENABLED HolderStep)
  /\ [][(mu # Unlocked /\ mu' # mu) => mu' = Unlocked /\ HolderStep]_vars
  /\ [][(mu = Unlocked /\ mu' # mu) => LockStep /\ mu' \in AtLock]_vars
  /\ []((AtLock # {} /\ NoReturn) => ENABLED (LockStep \/ HolderStep))

\* A handler is inside getWaitCh with kv.mu held, making the channel of its
\* index, while the apply loop, with a notification taken, and the other
\* handler wait in Lock().
C20_Witness ==
  /\ \E h \in Handlers :
       /\ mu = h /\ hs[h].index \notin DOMAIN waitChans
       /\ \E g \in Handlers : g # h /\ hs[g].pc = "getWaitCh"
  /\ apc = "Lock"

====
